---- MODULE Spec2Model ----
(***************************************************************************)
(* A model of the Vultr v2 reconciliation engine (AnsibleVultr in          *)
(* plugins/module_utils/vultr_v2.py) as the dns_domain module drives it    *)
(* (plugins/modules/dns_domain.py).                                        *)
(*                                                                         *)
(* One invocation of present() or absent() is a sequence of api_query      *)
(* calls.  Every api_query call is the retry loop of the source: one       *)
(* action per loop iteration (fetch_url, the 429 test, the backoff sleep)  *)
(* and one action for the classification of the final response.  The       *)
(* actions of the reconciler are the pieces of present()/absent() between  *)
(* two HTTP calls.  The remote API is a store of resources that applies    *)
(* the writes it accepts, may answer any call with a burst of 429s and     *)
(* may fail any call with a 4xx/5xx status.                                *)
(***************************************************************************)
EXTENDS Integers, Sequences, FiniteSets, TLC

(***************************************************************************)
(* Bounds of the model.                                                    *)
(***************************************************************************)
MaxRetries == 3          \* api_retries ranges over 0..MaxRetries
MaxRemote == 2           \* resources the remote holds before the first run
MaxRuns == 2             \* invocations run one after the other
SmallRetryMaxDelay == 2  \* a configured api_retry_max_delay that caps early
MaxListLen == 2          \* length of a list value handed to is_diff

\* The transport may answer more 429s in a row than the client will try.
MaxBurst == MaxRetries + 1

(***************************************************************************)
(* Program constants.                                                      *)
(***************************************************************************)
DefaultRetryMaxDelay == 12   \* api_retry_max_delay default, seconds
RandomnessMax == 1000        \* random.randint(0, 1000)
Millis == 1000               \* the division by 1000.0: delays are kept in 1/1000 s

(***************************************************************************)
(* Python values.  A value is None, a string or a list of strings; the     *)
(* three are kept apart by a tag, so that a string never equals a list.    *)
(***************************************************************************)
None == [kind |-> "none", items |-> <<>>]
Str(s) == [kind |-> "str", items |-> <<s>>]
List(q) == [kind |-> "list", items |-> q]

\* dict(): the empty mapping.
EmptyDict == [k \in {} |-> None]

\* bool(d) of a mapping: a non-empty dict is true.
Truthy(d) == DOMAIN d # {}

\* d.get(k): the value under k, None when k is missing.
Get(d, k) == IF k \in DOMAIN d THEN d[k] ELSE None

\* d.update(e) on a copy of d.
DictUpdate(d, e) ==
    [k \in (DOMAIN d) \cup (DOMAIN e) |-> IF k \in DOMAIN e THEN e[k] ELSE d[k]]

Range(q) == {q[i] : i \in 1..Len(q)}

Min(a, b) == IF a <= b THEN a ELSE b

RECURSIVE Pow2(_)
Pow2(n) == IF n = 0 THEN 1 ELSE 2 * Pow2(n - 1)


(***************************************************************************)
(* State.                                                                  *)
(***************************************************************************)
VARIABLES
    module,     \* AnsibleModule: check_mode and params (api_retries, ..., desired state)
    desc,       \* the resource descriptor handed to AnsibleVultr.__init__
    result,     \* self.result: changed, the namespace payload, diff.before, diff.after
    resource,   \* the local variable resource of present() / absent() / update()
    pc,         \* where the invocation stands
    api,        \* the api_query call in progress, its loop variables and its return value
    calls,      \* the api_query calls of this invocation, in order
    remote,     \* the resources the remote API holds, in list order
    remote0,    \* the resources the remote API held when this invocation started
    run,        \* the number of this invocation (1 for the first)
    history,    \* the results emitted by the earlier invocations
    probe       \* arguments and return value of a direct call of is_diff

vars == <<module, desc, result, resource, pc, api, calls, remote, remote0, run, history, probe>>

(***************************************************************************)
(* AnsibleVultr.__init__ (the part claims read): self.result.              *)
(***************************************************************************)
InitResult ==
    [changed |-> FALSE, payload |-> EmptyDict, before |-> EmptyDict, after |-> EmptyDict]

(***************************************************************************)
(* The descriptors.  DnsDomain is the one main() of dns_domain.py builds;  *)
(* the others vary the fields the engine leaves to its adapters: the id    *)
(* key, the managed fields, the detail fetch and the update method.  Every *)
(* descriptor creates with the name key, as AnsibleVultr's defaults do.    *)
(***************************************************************************)
DnsDomain ==
    [resource_path |-> "/domains",
     resource_key_name |-> "domain",
     resource_key_id |-> "domain",
     resource_get_details |-> FALSE,
     resource_create_param_keys |-> <<"domain", "ip">>,
     resource_update_param_keys |-> <<"domain">>,
     resource_update_method |-> "PATCH"]

\* The keys of an adapter that manages every field it creates.
ManagedKeys == <<"domain", "ip", "dns_sec">>

Descriptors ==
    { DnsDomain,
      [DnsDomain EXCEPT !.resource_create_param_keys = ManagedKeys,
                        !.resource_update_param_keys = ManagedKeys,
                        !.resource_get_details = TRUE],
      [DnsDomain EXCEPT !.resource_key_id = "id",
                        !.resource_create_param_keys = ManagedKeys,
                        !.resource_update_param_keys = ManagedKeys],
      [DnsDomain EXCEPT !.resource_key_id = "id",
                        !.resource_create_param_keys = ManagedKeys,
                        !.resource_update_param_keys = ManagedKeys,
                        !.resource_get_details = TRUE,
                        !.resource_update_method = "PUT"] }

(***************************************************************************)
(* The remote API.                                                         *)
(***************************************************************************)
ResourceFields == {"id", "domain", "ip", "dns_sec"}

Resource(id, domain, ip, dns_sec) ==
    [id |-> Str(id), domain |-> Str(domain), ip |-> Str(ip), dns_sec |-> Str(dns_sec)]

\* The resources the remote may hold before the first run.
Stock ==
    { Resource("x", "a", "i1", "off"), Resource("y", "a", "i2", "on"),
      Resource("z", "b", "i2", "on") }

NewIds == {"n1", "n2", "n3"}

\* "%s" % value, for the values that are used in a path.
ToText(v) == IF v.kind = "str" THEN v.items[1] ELSE "None"

IdsOf(store, idKey) == {ToText(store[i][idKey]) : i \in 1..Len(store)}

UniqueIds(store, idKey) == Cardinality(IdsOf(store, idKey)) = Len(store)

RECURSIVE SeqsUpTo(_, _)
SeqsUpTo(S, n) ==
    IF n = 0 THEN {<<>>}
    ELSE LET shorter == SeqsUpTo(S, n - 1)
         IN  shorter \cup {Append(q, x) : q \in shorter, x \in S}

InitialStores(idKey) ==
    {q \in SeqsUpTo(Stock, MaxRemote) : UniqueIds(q, idKey) /\ UniqueIds(q, "id")}

\* The positions of the store whose id (under the descriptor's id key) is id.
Holding(store, idKey, id) == {i \in 1..Len(store) : ToText(store[i][idKey]) = id}

RemoveAt(q, i) == [j \in 1..(Len(q) - 1) |-> IF j < i THEN q[j] ELSE q[j + 1]]

\* A write of body into a stored resource: the fields the body gives a value.
Applied(old, body) ==
    [k \in DOMAIN old |-> IF k \in DOMAIN body /\ body[k] # None THEN body[k] ELSE old[k]]

Answer(status, list, item, store) ==
    [status |-> status, list |-> list, item |-> item, remote |-> store]

\* The statuses with which the remote may refuse any call.
FaultStatuses == {400, 500, 503}

Faults(store) == {Answer(s, <<>>, EmptyDict, store) : s \in FaultStatuses}

\* What the remote answers once it does not rate-limit: it serves the call
\* (and applies a write), or refuses it with a fault.
Served(method, path, data, store, idKey) ==
    IF method = "GET" /\ Len(path) = 1 THEN
        {Answer(200, store, EmptyDict, store)}
        \cup (IF store = <<>>
              THEN {Answer(204, <<>>, EmptyDict, store), Answer(404, <<>>, EmptyDict, store)}
              ELSE {})
    ELSE IF method = "POST" THEN
        LET fresh == CHOOSE n \in NewIds : n \notin IdsOf(store, "id")
            made == DictUpdate([k \in ResourceFields |-> IF k = "id" THEN Str(fresh) ELSE None],
                               data)
        IN  {Answer(201, <<>>, made, Append(store, made)),
             Answer(204, <<>>, EmptyDict, Append(store, made))}
    ELSE LET at == Holding(store, idKey, path[2])
         IN  IF at = {} THEN {Answer(404, <<>>, EmptyDict, store)}
             ELSE LET i == CHOOSE j \in at : TRUE
                  IN  IF method = "GET" THEN {Answer(200, <<>>, store[i], store)}
                      ELSE IF method = "DELETE"
                      THEN {Answer(204, <<>>, EmptyDict, RemoveAt(store, i))}
                      ELSE LET new == [store EXCEPT ![i] = Applied(store[i], data)]
                           IN  {Answer(204, <<>>, EmptyDict, new),
                                Answer(200, <<>>, store[i], new)}

Answers(method, path, data, store, idKey) ==
    Served(method, path, data, store, idKey) \cup Faults(store)

(***************************************************************************)
(* api_query: the retry loop and the classification of the final response. *)
(***************************************************************************)
\* info is not bound before the first fetch_url returns.
Unbound == 0

IdleApi ==
    [phase |-> "idle", method |-> "", path |-> <<>>, data |-> EmptyDict,
     retry |-> 0, randomness |-> 0, burst |-> 0, status |-> Unbound, broke |-> FALSE,
     list |-> <<>>, item |-> EmptyDict, events |-> <<>>, ret |-> "pending"]

\* random.randint(0, 1000): the ends and one value between them.
Randomness == {0, RandomnessMax \div 2, RandomnessMax}

\* The first lines of api_query: the loop is entered with retry = 0 and the
\* randomness drawn once.  burst is the transport's part: the number of 429s
\* it answers in a row before it serves the call.
NewCall(path, method, data, randomness, burst) ==
    [IdleApi EXCEPT !.phase = "loop", !.method = method, !.path = path, !.data = data,
                    !.randomness = randomness, !.burst = burst]

ApiCalls(path, method, data) ==
    {NewCall(path, method, data, r, n) : r \in Randomness, n \in 0..MaxBurst}

\* A variant that also retries the server errors.
RetriedOnErrors(status) == status = 429 \/ status >= 500

\* if info['status'] != 429: break
Retried(status) == status = 429

\* A variant that caps the delay at retry_max_delay, without the randomness.
DelayCappedBare(retry, randomness, retry_max_delay) ==
    LET delay == Pow2(retry) * Millis + randomness
    IN  IF delay > retry_max_delay * Millis
        THEN retry_max_delay * Millis
        ELSE delay

\* delay = 2 ** retry + randomness, capped at retry_max_delay + randomness; in 1/1000 s.
Delay(retry, randomness, retry_max_delay) ==
    LET delay == Pow2(retry) * Millis + randomness
    IN  IF delay > retry_max_delay * Millis
        THEN retry_max_delay * Millis + randomness
        ELSE delay

\* A variant that takes every status that is no success for "nothing there".
ClassifyLenient(status) ==
    IF status = Unbound THEN "crash"
    ELSE IF status \in {200, 201} THEN "json"
    ELSE "none"

\* The three outcomes of the final response; a name that is not bound ends the
\* call with a NameError instead.
Classify(status) ==
    IF status = Unbound THEN "crash"
    ELSE IF status \in {200, 201} THEN "json"
    ELSE IF status \in {404, 204} THEN "none"
    ELSE "fail"

\* What the call did so far: the requests, each with the status it was answered, and the sleeps.
RequestEvent(a, status) ==
    [ev |-> "request", method |-> a.method, path |-> a.path, status |-> status, delay |-> 0]
SleepEvent(a, d) ==
    [ev |-> "sleep", method |-> a.method, path |-> a.path, status |-> Unbound, delay |-> d]

\* A variant with one iteration too many: range(0, api_retries + 1).
LoopRunsInclusive(retry, api_retries) == retry <= api_retries

\* for retry in range(0, api_retries): the loop has another iteration to run.
LoopRuns(retry, api_retries) == retry < api_retries

\* What the transport answers to the attempt about to be made.
Responses ==
    IF api.retry < api.burst
    THEN {Answer(429, <<>>, EmptyDict, remote)}
    ELSE Answers(api.method, api.path, api.data, remote, desc.resource_key_id)

\* One iteration of the loop: fetch_url, the test of the status, the sleep.
Attempted(a, ans, retry_max_delay) ==
    IF Retried(ans.status)
    THEN [a EXCEPT !.status = ans.status,
                   !.events = @ \o <<RequestEvent(a, ans.status),
                                     SleepEvent(a, Delay(a.retry, a.randomness, retry_max_delay))>>,
                   !.retry = @ + 1]
    ELSE [a EXCEPT !.status = ans.status, !.broke = TRUE,
                   !.list = ans.list, !.item = ans.item,
                   !.events = Append(@, RequestEvent(a, ans.status))]

ApiAttempt ==
    /\ api.phase = "loop"
    /\ ~api.broke
    /\ LoopRuns(api.retry, module.api_retries)
    /\ \E ans \in Responses :
          /\ api' = Attempted(api, ans, module.api_retry_max_delay)
          /\ remote' = ans.remote
    /\ UNCHANGED <<module, desc, result, resource, pc, calls, remote0, run, history, probe>>

\* After the loop: return the body, return None, or fail_json (the process exits).
ApiClassify ==
    /\ api.phase = "loop"
    /\ api.broke \/ ~LoopRuns(api.retry, module.api_retries)
    /\ api' = [api EXCEPT !.phase = "returned", !.ret = Classify(api.status)]
    /\ pc' = IF Classify(api.status) = "fail" THEN "failed"
             ELSE IF Classify(api.status) = "crash" THEN "crashed"
             ELSE pc
    /\ UNCHANGED <<module, desc, result, resource, calls, remote, remote0, run, history, probe>>

\* The api_query call has returned to the reconciler at position p.
Returned(p) == pc = p /\ api.phase = "returned" /\ api.ret \in {"json", "none"}

(***************************************************************************)
(* The reconciler.  A piece of present()/absent() runs from the return of  *)
(* one api_query call to the start of the next one, or to exit_json; it    *)
(* yields the position reached, the local resource, self.result and the    *)
(* call it starts.                                                         *)
(***************************************************************************)
NoCall == [active |-> FALSE, method |-> "", path |-> <<>>, data |-> EmptyDict]
Call(method, path, data) == [active |-> TRUE, method |-> method, path |-> path, data |-> data]

Step(p, r, res, call) == [pc |-> p, resource |-> r, result |-> res, call |-> call]

\* resource_path alone, and "%s/%s" % (resource_path, id).
CollectionPath == <<desc.resource_path>>
ResourcePath(id) == <<desc.resource_path, ToText(id)>>

\* data[param] = self.module.params.get(param), for each param of keys.
BuildData(keys) == [k \in Range(keys) |-> Get(module.params, k)]

\* v not in current, for an element v of a proposed list.
Contains(current, v) == \E i \in 1..Len(current.items) : current.items[i] = v

\* A variant that compares a list as a whole, as it compares a string.
is_diff_equality(keys, data, r) ==
    \E i \in 1..Len(keys) : data[keys[i]] # None /\ r[keys[i]] # data[keys[i]]

\* is_diff over data.items(), in the order of the keys.
RECURSIVE is_diff(_, _, _)
is_diff(keys, data, r) ==
    IF keys = <<>> THEN FALSE
    ELSE LET key == Head(keys)
             value == data[key]
         IN  IF value = None THEN is_diff(Tail(keys), data, r)
             ELSE IF value.kind = "list"
             THEN IF \E i \in 1..Len(value.items) : ~Contains(r[key], value.items[i])
                  THEN TRUE
                  ELSE is_diff(Tail(keys), data, r)
             ELSE IF r[key] # value THEN TRUE
             ELSE is_diff(Tail(keys), data, r)

\* get_result: the payload is stored and exit_json emits self.result.
get_result(res, r) == Step("done", r, [res EXCEPT !.payload = r], NoCall)

\* A variant of create() that builds its body from the update keys.
create_with_update_keys(res) ==
    LET data == BuildData(desc.resource_update_param_keys)
        marked == [res EXCEPT !.changed = TRUE, !.before = EmptyDict, !.after = data]
    IN  IF ~module.check_mode
        THEN Step("create", EmptyDict, marked, Call("POST", CollectionPath, data))
        ELSE get_result(marked, EmptyDict)

\* A variant of create() that does not look at check_mode.
create_unguarded(res) ==
    LET data == BuildData(desc.resource_create_param_keys)
        marked == [res EXCEPT !.changed = TRUE, !.before = EmptyDict, !.after = data]
    IN  Step("create", EmptyDict, marked, Call("POST", CollectionPath, data))

\* create(), and present() after it when create() returns without a POST.
create(res) ==
    LET data == BuildData(desc.resource_create_param_keys)
        marked == [res EXCEPT !.changed = TRUE, !.before = EmptyDict, !.after = data]
    IN  IF ~module.check_mode
        THEN Step("create", EmptyDict, marked, Call("POST", CollectionPath, data))
        ELSE get_result(marked, EmptyDict)

\* A variant of update() that builds its body from the create keys.
update_all_params(r, res) ==
    LET data == BuildData(desc.resource_create_param_keys)
        marked == [res EXCEPT !.changed = TRUE, !.before = r, !.after = DictUpdate(r, data)]
    IN  IF is_diff(desc.resource_create_param_keys, data, r)
        THEN IF ~module.check_mode
             THEN Step("update", r, marked,
                       Call(desc.resource_update_method,
                            ResourcePath(r[desc.resource_key_id]), data))
             ELSE get_result(marked, r)
        ELSE get_result(res, r)

\* A variant of update() that writes without recording the change.
update_silent(r, res) ==
    LET data == BuildData(desc.resource_update_param_keys)
        marked == [res EXCEPT !.changed = TRUE, !.before = r, !.after = DictUpdate(r, data)]
    IN  IF is_diff(desc.resource_update_param_keys, data, r)
        THEN IF ~module.check_mode
             THEN Step("update", r, res,
                       Call(desc.resource_update_method,
                            ResourcePath(r[desc.resource_key_id]), data))
             ELSE get_result(marked, r)
        ELSE get_result(res, r)

\* update(resource) up to its write, and present() after it when nothing is written.
update(r, res) ==
    LET data == BuildData(desc.resource_update_param_keys)
        marked == [res EXCEPT !.changed = TRUE, !.before = r, !.after = DictUpdate(r, data)]
    IN  IF is_diff(desc.resource_update_param_keys, data, r)
        THEN IF ~module.check_mode
             THEN Step("update", r, marked,
                       Call(desc.resource_update_method,
                            ResourcePath(r[desc.resource_key_id]), data))
             ELSE get_result(marked, r)
        ELSE get_result(res, r)

\* A variant of present() that creates whatever query() returned.
present_ignores_lookup(r, res) == create(res)

\* present() from the return of query().
present(r, res) == IF ~Truthy(r) THEN create(res) ELSE update(r, res)

\* A variant of absent() that addresses the resource by its name field.
absent_by_name(r, res) ==
    IF Truthy(r)
    THEN LET marked == [res EXCEPT !.changed = TRUE, !.before = r, !.after = EmptyDict]
         IN  IF ~module.check_mode
             THEN Step("delete", r, marked,
                       Call("DELETE", ResourcePath(r[desc.resource_key_name]), EmptyDict))
             ELSE get_result(marked, r)
    ELSE get_result(res, r)

\* A variant of absent() that calls get_result only when the resource was found.
absent_skips_result(r, res) ==
    IF Truthy(r)
    THEN LET marked == [res EXCEPT !.changed = TRUE, !.before = r, !.after = EmptyDict]
         IN  IF ~module.check_mode
             THEN Step("delete", r, marked,
                       Call("DELETE", ResourcePath(r[desc.resource_key_id]), EmptyDict))
             ELSE get_result(marked, r)
    ELSE Step("exit", r, res, NoCall)

\* A variant of absent() that records the change only when it deletes.
absent_quiet_dry_run(r, res) ==
    IF Truthy(r)
    THEN LET marked == [res EXCEPT !.changed = TRUE, !.before = r, !.after = EmptyDict]
         IN  IF ~module.check_mode
             THEN Step("delete", r, marked,
                       Call("DELETE", ResourcePath(r[desc.resource_key_id]), EmptyDict))
             ELSE get_result(res, r)
    ELSE get_result(res, r)

\* absent() from the return of query().
absent(r, res) ==
    IF Truthy(r)
    THEN LET marked == [res EXCEPT !.changed = TRUE, !.before = r, !.after = EmptyDict]
         IN  IF ~module.check_mode
             THEN Step("delete", r, marked,
                       Call("DELETE", ResourcePath(r[desc.resource_key_id]), EmptyDict))
             ELSE get_result(marked, r)
    ELSE get_result(res, r)

\* main(): state decides between absent() and present().
Dispatch(r, res) == IF module.state = "absent" THEN absent(r, res) ELSE present(r, res)

\* query_list(): the list under the plural key, [] when the API returned nothing.
query_list(a) == IF a.ret = "json" THEN a.list ELSE <<>>

\* query(resource_id): the resource under the singular key, dict() when absent.
query_by_id(a) == IF a.ret = "json" THEN a.item ELSE EmptyDict

\* The positions of the list whose name field equals the desired name.
Matches(resources) ==
    {i \in 1..Len(resources) :
        Get(resources[i], desc.resource_key_name) = Get(module.params, desc.resource_key_name)}

First(S) == CHOOSE i \in S : \A j \in S : i <= j

\* query() from the return of query_list(): the first match in list order,
\* fetched again by id when the descriptor asks for details.
query(resources, res) ==
    IF Matches(resources) = {} THEN Dispatch(EmptyDict, res)
    ELSE LET hit == resources[First(Matches(resources))]
         IN  IF desc.resource_get_details
             THEN Step("detail", EmptyDict, res,
                       Call("GET", ResourcePath(hit[desc.resource_key_id]), EmptyDict))
             ELSE Dispatch(hit, res)

\* A variant of present() that never fetches the created resource again.
created_without_refetch(a, res) ==
    get_result(res, IF a.ret = "json" THEN a.item ELSE EmptyDict)

\* present() after create() returned from its POST.
created(a, res) ==
    LET r == IF a.ret = "json" THEN a.item ELSE EmptyDict
    IN  IF Truthy(r) /\ desc.resource_get_details
        THEN Step("refetch", r, res, Call("GET", ResourcePath(r[desc.resource_key_id]), EmptyDict))
        ELSE get_result(res, r)

\* A variant that reports the body of the write's response, when there is one.
updated_trusts_write(r, res) == get_result(res, IF api.ret = "json" THEN api.item ELSE r)

\* update() after its write returned: the response is dropped, the resource is queried by id.
updated(r, res) ==
    Step("requery", r, res, Call("GET", ResourcePath(r[desc.resource_key_id]), EmptyDict))

\* The step is taken: the variables move and the call, if any, starts.
Take(s) ==
    /\ pc' = s.pc
    /\ resource' = s.resource
    /\ result' = s.result
    /\ IF s.call.active
       THEN /\ api' \in ApiCalls(s.call.path, s.call.method, s.call.data)
            /\ calls' = Append(calls, [method |-> s.call.method, path |-> s.call.path,
                                       data |-> s.call.data])
       ELSE /\ api' = IdleApi
            /\ calls' = calls
    /\ UNCHANGED <<module, desc, remote, remote0, run, history, probe>>

\* main() .. present()/absent() .. query() .. query_list(): the list is asked for.
Invoke ==
    /\ pc = "start"
    /\ Take(Step("list", EmptyDict, result, Call("GET", CollectionPath, EmptyDict)))

AfterList == Returned("list") /\ Take(query(query_list(api), result))

AfterDetail == Returned("detail") /\ Take(Dispatch(query_by_id(api), result))

AfterCreate == Returned("create") /\ Take(created(api, result))

AfterRefetch == Returned("refetch") /\ Take(get_result(result, query_by_id(api)))

AfterUpdate == Returned("update") /\ Take(updated(resource, result))

AfterRequery == Returned("requery") /\ Take(get_result(result, query_by_id(api)))

AfterDelete == Returned("delete") /\ Take(get_result(result, resource))

\* The module is run again, with the same parameters, against the remote as it is now.
Rerun ==
    /\ pc = "done"
    /\ run < MaxRuns
    /\ run' = run + 1
    /\ history' = Append(history, result)
    /\ result' = InitResult
    /\ resource' = EmptyDict
    /\ pc' = "start"
    /\ api' = IdleApi
    /\ calls' = <<>>
    /\ remote0' = remote
    /\ UNCHANGED <<module, desc, remote, probe>>

IdleProbe == [keys |-> <<>>, data |-> EmptyDict, resource |-> EmptyDict, outcome |-> "unset"]

\* The desired states: the name is required, a field that is not given is None.
DesiredStates ==
    { [domain |-> Str("a"), ip |-> Str("i1"), dns_sec |-> None],
      [domain |-> Str("a"), ip |-> None, dns_sec |-> None],
      [domain |-> Str("a"), ip |-> None, dns_sec |-> Str("on")] }

Init ==
    /\ module \in [check_mode : BOOLEAN,
                   api_retries : 0..MaxRetries,
                   api_retry_max_delay : {SmallRetryMaxDelay, DefaultRetryMaxDelay},
                   state : {"present", "absent"},
                   params : DesiredStates]
    /\ desc \in Descriptors
    /\ remote \in InitialStores(desc.resource_key_id)
    /\ remote0 = remote
    /\ result = InitResult
    /\ resource = EmptyDict
    /\ pc = "start"
    /\ api = IdleApi
    /\ calls = <<>>
    /\ run = 1
    /\ history = <<>>
    /\ probe = IdleProbe

Next ==
    \/ Invoke
    \/ ApiAttempt
    \/ ApiClassify
    \/ AfterList
    \/ AfterDetail
    \/ AfterCreate
    \/ AfterRefetch
    \/ AfterUpdate
    \/ AfterRequery
    \/ AfterDelete
    \/ Rerun

Spec == Init /\ [][Next]_vars

(***************************************************************************)
(* is_diff called on its own: the body of an update against a resource     *)
(* that has the fields of the body, a string field and a list field.       *)
(***************************************************************************)
ProposedItems == {"a", "b", "d"}
CurrentItems == {"a", "b", "c"}

ProbeKeys == {<<"ip">>, <<"tags">>, <<"ip", "tags">>, <<"tags", "ip">>}

ProposedValues(key) ==
    IF key = "ip" THEN {None, Str("i1"), Str("i2")}
    ELSE {None, Str("a")} \cup {List(q) : q \in SeqsUpTo(ProposedItems, MaxListLen)}

ProbeResources ==
    {[ip |-> Str(i), tags |-> List(q)] :
        i \in {"i1", "i2"}, q \in SeqsUpTo(CurrentItems, MaxListLen + 1)}

ProbeData(keys) ==
    {d \in [Range(keys) -> UNION {ProposedValues(k) : k \in Range(keys)}] :
        \A k \in Range(keys) : d[k] \in ProposedValues(k)}

InitDiff ==
    /\ module = [check_mode |-> FALSE, api_retries |-> 1,
                 api_retry_max_delay |-> DefaultRetryMaxDelay, state |-> "present",
                 params |-> [domain |-> Str("a"), ip |-> None, dns_sec |-> None]]
    /\ desc = DnsDomain
    /\ remote = <<>>
    /\ remote0 = <<>>
    /\ result = InitResult
    /\ resource = EmptyDict
    /\ pc = "probe"
    /\ api = IdleApi
    /\ calls = <<>>
    /\ run = 1
    /\ history = <<>>
    /\ \E keys \in ProbeKeys : \E d \in ProbeData(keys) : \E r \in ProbeResources :
          probe = [keys |-> keys, data |-> d, resource |-> r, outcome |-> "unset"]

\* is_diff(data, resource) is called and returns.
DiffApply ==
    /\ pc = "probe"
    /\ probe.outcome = "unset"
    /\ probe' = [probe EXCEPT !.outcome =
                    IF is_diff(probe.keys, probe.data, probe.resource) THEN "true" ELSE "false"]
    /\ UNCHANGED <<module, desc, result, resource, pc, api, calls, remote, remote0, run, history>>

NextDiff == DiffApply

SpecDiff == InitDiff /\ [][NextDiff]_vars

(***************************************************************************)
(* What the claims speak of, stated over the state without the operators   *)
(* of the reconciler.                                                      *)
(***************************************************************************)
WriteMethods == {"POST", "PATCH", "PUT", "DELETE"}

\* The requests the api_query call a has put on the wire so far.
RequestsOf(a) == {i \in 1..Len(a.events) : a.events[i].ev = "request"}
SleepsOf(a) == {i \in 1..Len(a.events) : a.events[i].ev = "sleep"}

\* The api_query calls of this invocation with one of the methods.
CallsWith(methods) == {i \in 1..Len(calls) : calls[i].method \in methods}

DesiredName == module.params[desc.resource_key_name]

\* The resource of store the name lookup finds: the first with the desired name.
NamedIn(store) == {i \in 1..Len(store) : store[i][desc.resource_key_name] = DesiredName}
FoundIn(store) ==
    IF NamedIn(store) = {} THEN EmptyDict
    ELSE store[CHOOSE i \in NamedIn(store) : \A j \in NamedIn(store) : i <= j]

Emitted == pc = "done"

(***************************************************************************)
(* C1  Idempotence of present(): without dry-run, an invocation of         *)
(* present() that follows a completed one with the same desired state      *)
(* starts no write call, puts no write request on the wire, and emits      *)
(* changed = false.                                                        *)
(***************************************************************************)
C1_Idempotence ==
    (module.state = "present" /\ ~module.check_mode /\ run >= 2) =>
        /\ CallsWith(WriteMethods) = {}
        /\ \A i \in RequestsOf(api) : api.events[i].method \notin WriteMethods
        /\ Emitted => ~result.changed

\* The first run changed the remote and the second run found nothing to change.
C1_Witness ==
    /\ module.state = "present" /\ ~module.check_mode
    /\ run = 2 /\ Emitted
    /\ history[1].changed
    /\ ~result.changed

(***************************************************************************)
(* C2  Dry-run non-mutation: in check mode every call started and every    *)
(* request issued is a GET, in every state of present() and absent(), and  *)
(* the remote holds what it held when the invocation started.              *)
(***************************************************************************)
C2_DryRunReadOnly ==
    module.check_mode =>
        /\ CallsWith(WriteMethods) = {}
        /\ \A i \in 1..Len(calls) : calls[i].method = "GET"
        /\ \A i \in RequestsOf(api) : api.events[i].method = "GET"
        /\ api.phase # "idle" => api.method = "GET"
        /\ remote = remote0

\* A dry run that reports a change on a resource it fetched the details of.
C2_Witness ==
    /\ module.check_mode /\ Emitted
    /\ result.changed
    /\ desc.resource_get_details
    /\ Len(calls) = 2

(***************************************************************************)
(* C3  Retry bound: with api_retries >= 1, a call the transport answers    *)
(* with N 429s in a row before it serves it has issued min(N + 1,          *)
(* api_retries) requests when it ends; it returns the body of the 200 when *)
(* N < api_retries and fails, on a 429, when N >= api_retries, and only    *)
(* then does a 429 end the call.                                           *)
(***************************************************************************)
C3_RetryBound ==
    (api.phase = "returned" /\ module.api_retries >= 1) =>
        /\ Cardinality(RequestsOf(api)) = Min(api.burst + 1, module.api_retries)
        /\ (api.burst < module.api_retries /\ api.status = 200) =>
               (api.ret = "json" /\ pc \notin {"failed", "crashed"})
        /\ api.burst >= module.api_retries => (api.ret = "fail" /\ pc = "failed")
        /\ api.status = 429 <=> api.burst >= module.api_retries

\* One 429, then the 200 whose body is returned on the second request.
C3_Witness ==
    /\ api.phase = "returned"
    /\ api.burst = 1 /\ module.api_retries = 2
    /\ api.status = 200 /\ api.ret = "json"
    /\ Cardinality(RequestsOf(api)) = 2

(***************************************************************************)
(* C4  Outcome classification: every api_query call ends in one of three   *)
(* outcomes that the status of its final response decides: 200/201 the     *)
(* decoded body, 404/204 the empty marker (the same for both), any other   *)
(* status the terminal error, with no value returned.                      *)
(***************************************************************************)
C4_Classification ==
    api.phase = "returned" =>
        \/ api.status \in {200, 201} /\ api.ret = "json"
        \/ api.status \in {404, 204} /\ api.ret = "none"
        \/ /\ api.status \notin {Unbound, 200, 201, 404, 204}
           /\ api.ret = "fail"
           /\ pc = "failed"

(***************************************************************************)
(* C5  absent(): when the name lookup finds nothing, the result is         *)
(* changed = false with an empty payload and an empty diff, and no DELETE  *)
(* call is ever started; when it finds a resource, the result is           *)
(* changed = true, diff.before the snapshot of that resource, diff.after   *)
(* empty, and without dry-run exactly one DELETE call was made, to         *)
(* resource_path/<id of the resource>.                                     *)
(***************************************************************************)
C5_Absent ==
    module.state = "absent" =>
        LET found == FoundIn(remote0)
        IN  IF ~Truthy(found)
            THEN /\ CallsWith({"DELETE"}) = {}
                 /\ Emitted =>
                       /\ ~result.changed
                       /\ result.payload = EmptyDict
                       /\ result.before = EmptyDict
                       /\ result.after = EmptyDict
            ELSE Emitted =>
                       /\ result.changed
                       /\ result.before = found
                       /\ result.after = EmptyDict
                       /\ IF module.check_mode
                          THEN CallsWith({"DELETE"}) = {}
                          ELSE /\ CallsWith({"DELETE"}) = {Len(calls)}
                               /\ calls[Len(calls)].path =
                                     <<desc.resource_path, found[desc.resource_key_id].items[1]>>

\* The resource was found under an id that is not its name, and deleted.
C5_Witness ==
    /\ module.state = "absent" /\ ~module.check_mode /\ Emitted
    /\ desc.resource_key_id = "id"
    /\ result.changed
    /\ CallsWith({"DELETE"}) # {}
    /\ Len(remote) < Len(remote0)

(***************************************************************************)
(* C6  present() without dry-run on a remote that holds no resource of the *)
(* desired name: the first call is the GET of the collection, the second   *)
(* the only POST (and the only write), to resource_path, with a body that  *)
(* maps every create key to its desired value; the result has              *)
(* changed = true, diff.before empty and diff.after equal to that body.    *)
(***************************************************************************)
C6_CreateOnEmpty ==
    (module.state = "present" /\ ~module.check_mode /\ ~Truthy(FoundIn(remote0))) =>
        /\ CallsWith(WriteMethods) \subseteq {2}
        /\ Emitted =>
              /\ calls[1] = [method |-> "GET", path |-> <<desc.resource_path>>, data |-> EmptyDict]
              /\ CallsWith({"POST"}) = {2}
              /\ calls[2].path = <<desc.resource_path>>
              /\ DOMAIN calls[2].data = Range(desc.resource_create_param_keys)
              /\ \A k \in DOMAIN calls[2].data : calls[2].data[k] = module.params[k]
              /\ result.changed
              /\ result.before = EmptyDict
              /\ result.after = calls[2].data

\* The remote held resources of other names only, and now holds the created one too.
C6_Witness ==
    /\ module.state = "present" /\ ~module.check_mode /\ Emitted
    /\ remote0 # <<>>
    /\ ~Truthy(FoundIn(remote0))
    /\ Len(remote) = Len(remote0) + 1
    /\ result.after = [domain |-> Str("a"), ip |-> Str("i1")]

(***************************************************************************)
(* C7  No-op update: when the resource is found and no update key has a    *)
(* desired value that differs from the resource's, present() starts no     *)
(* call after the lookup, changes nothing on the remote, leaves changed at *)
(* false and the diff empty, and reports the resource as it was found.     *)
(***************************************************************************)
NoFieldDiffers(found) ==
    \A k \in Range(desc.resource_update_param_keys) :
        module.params[k] = None \/ found[k] = module.params[k]

C7_NoOpUpdate ==
    LET found == FoundIn(remote0)
    IN  (module.state = "present" /\ Truthy(found) /\ NoFieldDiffers(found)) =>
            /\ CallsWith(WriteMethods) = {}
            /\ Len(calls) <= (IF desc.resource_get_details THEN 2 ELSE 1)
            /\ remote = remote0
            /\ ~result.changed
            /\ result.before = EmptyDict
            /\ result.after = EmptyDict
            /\ Emitted => (result.payload = found /\ resource = found)

\* Update keys [domain] only: the ip of the remote differs from the desired ip, and nothing is done.
C7_Witness ==
    /\ module.state = "present" /\ ~module.check_mode /\ Emitted
    /\ desc.resource_update_param_keys = <<"domain">>
    /\ module.params["ip"] = Str("i1")
    /\ result.payload # EmptyDict
    /\ result.payload["ip"] = Str("i2")
    /\ ~result.changed

(***************************************************************************)
(* C9  Retries absorb only rate limiting: a request answered with a status *)
(* other than 429 is the last thing its call does (no request and no sleep *)
(* follows it); a first response of 500 or 503 gives one request and the   *)
(* terminal error.                                                         *)
(***************************************************************************)
C9_OnlyRateLimitRetried ==
    /\ \A i \in RequestsOf(api) : api.events[i].status # 429 => i = Len(api.events)
    /\ (api.phase = "returned" /\ api.events # <<>> /\ api.events[1].status \in {500, 503}) =>
           /\ Len(api.events) = 1
           /\ api.ret = "fail"
           /\ pc = "failed"

\* Two attempts were allowed; the 503 that answered the first one ended the call.
C9_Witness ==
    /\ api.phase = "returned"
    /\ module.api_retries = 2
    /\ Len(api.events) = 1
    /\ api.events[1].status = 503
    /\ pc = "failed"

(***************************************************************************)
(* C10  Terminal errors are never suppressed: a call of present() or       *)
(* absent() that ends on a status other than 200, 201, 204 and 404 puts    *)
(* the invocation in its failed end, and from there nothing moves: no      *)
(* call, no request, no write on the remote, no result, no further run.    *)
(***************************************************************************)
TerminalEnded == api.phase = "returned" /\ api.status \notin {Unbound, 200, 201, 204, 404}

C10_NoSuppression ==
    /\ [](TerminalEnded => pc = "failed")
    /\ [][(TerminalEnded \/ pc = "failed") => UNCHANGED vars]_vars

\* The write went through and the query that follows it failed.
C10_Witness ==
    /\ pc = "failed"
    /\ Len(calls) >= 3
    /\ calls[Len(calls) - 1].method \in {"PATCH", "PUT"}
    /\ api.method = "GET"
    /\ api.status = 500

(***************************************************************************)
(* C8  is_diff(data, resource) is true exactly when some key of data has a *)
(* value that is not None and is either a list with an element that the    *)
(* resource's field does not contain, or not a list and unequal to the     *)
(* resource's field.                                                       *)
(***************************************************************************)
Differs(v, current) ==
    /\ v # None
    /\ IF v.kind = "list"
       THEN \E x \in Range(v.items) : x \notin Range(current.items)
       ELSE current # v

C8_IsDiff ==
    probe.outcome # "unset" =>
        (probe.outcome = "true" <=>
            \E k \in DOMAIN probe.data : Differs(probe.data[k], probe.resource[k]))

\* A proposed list inside the current one, next to a key that is not managed: no diff.
C8_Witness ==
    /\ probe.outcome = "false"
    /\ probe.keys = <<"ip", "tags">>
    /\ probe.data["ip"] = None
    /\ probe.data["tags"] = List(<<"a", "b">>)
    /\ probe.resource["tags"] = List(<<"a", "b", "c">>)

(***************************************************************************)
(* The invocations under fairness: the process runs as long as it has a    *)
(* step to take (the calls are synchronous, nothing else is scheduled).    *)
(***************************************************************************)
\* One invocation: the steps of Next without the next run.
NextOnce ==
    \/ Invoke
    \/ ApiAttempt
    \/ ApiClassify
    \/ AfterList
    \/ AfterDetail
    \/ AfterCreate
    \/ AfterRefetch
    \/ AfterUpdate
    \/ AfterRequery
    \/ AfterDelete

\* The invocations with the default delay cap and an ip given, as present requires.
InitFair ==
    /\ Init
    /\ module.api_retry_max_delay = DefaultRetryMaxDelay
    /\ module.params["ip"] # None

FairSpec == InitFair /\ [][NextOnce]_vars /\ WF_vars(NextOnce)

\* The invocation is over: with its result, with fail_json, or with the NameError.
Ended == pc \in {"done", "failed", "crashed"}

(***************************************************************************)
(* C11 as stated: every invocation of present() or absent() ends having    *)
(* emitted its Reconciliation Result, so none ends without one.            *)
(***************************************************************************)
C11_AlwaysEmits == Ended => Emitted

\* The positions that may follow a position of present() / absent().
PathAfter(p) ==
    CASE p = "start" -> {"list"}
      [] p = "list" -> {"detail", "done"} \cup
                       (IF module.state = "absent" THEN {"delete"} ELSE {"create", "update"})
      [] p = "detail" -> {"done"} \cup
                         (IF module.state = "absent" THEN {"delete"} ELSE {"create", "update"})
      [] p = "create" -> {"done"} \cup (IF desc.resource_get_details THEN {"refetch"} ELSE {})
      [] p = "refetch" -> {"done"}
      [] p = "update" -> {"requery"}
      [] p = "requery" -> {"done"}
      [] p = "delete" -> {"done"}
      [] OTHER -> {}

(***************************************************************************)
(* C11 (amended)  Every invocation of present() or absent() terminates and *)
(* follows START -> query -> {create -> [refetch] | update} -> DONE, resp. *)
(* START -> query -> [delete] -> DONE; it emits exactly one Reconciliation *)
(* Result when every api_query call it makes returns, and none when a call *)
(* does not return (terminal API error, or no response at all): then it    *)
(* stops at that call.                                                     *)
(***************************************************************************)
C11_EndsOnce ==
    /\ (pc = "start") ~> Ended
    /\ [](pc \in {"failed", "crashed"} =>
             (api.phase = "returned" /\ api.ret \in {"fail", "crash"}))
    /\ [](Emitted => api.phase = "idle")
    /\ [](Len(history) = run - 1)
    /\ [][pc' # pc =>
            \/ pc' \in PathAfter(pc)
            \/ pc' \in {"failed", "crashed"} /\ api.phase = "loop" /\ ~Ended
            \/ pc = "done" /\ pc' = "start" /\ run' = run + 1]_vars
    /\ [][Ended => (result' = result \/ (pc = "done" /\ pc' = "start"))]_vars

\* absent() found the resource, deleted it and emitted its result.
C11_Witness ==
    /\ Emitted
    /\ module.state = "absent"
    /\ Len(calls) = 3
    /\ calls[3].method = "DELETE"

(***************************************************************************)
(* C12  Dry-run result equivalence: the changed flag and diff.before /     *)
(* diff.after of an emitted result are decided by the desired state, the   *)
(* descriptor and the remote as the invocation found it, and by nothing    *)
(* else: a dry run and a run that writes, started from the same remote     *)
(* state, emit the same three values.                                      *)
(***************************************************************************)
\* The three values, from the inputs the two runs share (check_mode is not read).
Verdict(found) ==
    IF module.state = "absent"
    THEN IF Truthy(found)
         THEN [changed |-> TRUE, before |-> found, after |-> EmptyDict]
         ELSE [changed |-> FALSE, before |-> EmptyDict, after |-> EmptyDict]
    ELSE IF ~Truthy(found)
         THEN [changed |-> TRUE, before |-> EmptyDict,
               after |-> [k \in Range(desc.resource_create_param_keys) |-> module.params[k]]]
         ELSE IF NoFieldDiffers(found)
              THEN [changed |-> FALSE, before |-> EmptyDict, after |-> EmptyDict]
              ELSE [changed |-> TRUE, before |-> found,
                    after |-> [k \in DOMAIN found |->
                                  IF k \in Range(desc.resource_update_param_keys)
                                  THEN module.params[k] ELSE found[k]]]

C12_DryRunEquivalence ==
    Emitted =>
        LET verdict == Verdict(FoundIn(remote0))
        IN  /\ result.changed = verdict.changed
            /\ result.before = verdict.before
            /\ result.after = verdict.after

\* A dry run of an update: the remote is as it was, the result reports the change.
C12_Witness ==
    /\ Emitted /\ module.check_mode /\ module.state = "present"
    /\ result.changed
    /\ result.before # EmptyDict
    /\ result.after # result.before
    /\ remote = remote0

(***************************************************************************)
(* C13  Diff reflects exactly the fields touched: in every emitted result  *)
(* diff.before is empty on create and the snapshot of the resource found   *)
(* on update and delete, diff.after is empty on delete, and on update      *)
(* diff.after has the fields of diff.before and differs from it only on    *)
(* update keys whose desired value is not None.                            *)
(***************************************************************************)
C13_DiffFields ==
    Emitted =>
        LET found == FoundIn(remote0)
        IN  /\ (module.state = "present" /\ ~Truthy(found)) => result.before = EmptyDict
            /\ (module.state = "absent" /\ Truthy(found)) =>
                   (result.before = found /\ result.after = EmptyDict)
            /\ (module.state = "present" /\ Truthy(found) /\ result.changed) =>
                   /\ result.before = found
                   /\ DOMAIN result.after = DOMAIN result.before
                   /\ \A k \in DOMAIN result.after :
                         result.after[k] # result.before[k] =>
                             /\ k \in Range(desc.resource_update_param_keys)
                             /\ module.params[k] # None

(***************************************************************************)
(* C14  Backoff delay: every sleep of a call follows a request that was    *)
(* answered 429, and the sleep after the 429 of zero-based attempt a lasts *)
(* min(2^a + jitter, retry_max_delay + jitter) with the one jitter of the  *)
(* call; the delays of a call never decrease from one attempt to the next  *)
(* and never exceed retry_max_delay + jitter.  (In 1/1000 s.)              *)
(***************************************************************************)
\* The zero-based attempt whose 429 the sleep at position i of the events follows.
AttemptOf(a, i) == Cardinality({j \in RequestsOf(a) : j < i}) - 1

C14_BackoffDelay ==
    LET jitter == api.randomness
        cap == module.api_retry_max_delay * Millis + jitter
    IN  /\ \A i \in SleepsOf(api) :
              /\ i > 1 /\ api.events[i - 1].ev = "request" /\ api.events[i - 1].status = 429
              /\ api.events[i].delay = Min(Pow2(AttemptOf(api, i)) * Millis + jitter, cap)
              /\ api.events[i].delay <= cap
        /\ \A i, j \in SleepsOf(api) : i < j => api.events[i].delay <= api.events[j].delay

\* Three 429s in a row: the delay grows from the first sleep to the second and is capped at the third.
C14_Witness ==
    /\ module.api_retry_max_delay = SmallRetryMaxDelay
    /\ api.randomness = RandomnessMax \div 2
    /\ Cardinality(SleepsOf(api)) >= 3
    /\ api.events[2].delay < api.events[4].delay
    /\ api.events[4].delay = api.events[6].delay
    /\ api.events[6].delay < Pow2(2) * Millis + api.randomness

(***************************************************************************)
(* C15  The jitter of a call lies in [0, 1.0), the end 1.0 excluded, and   *)
(* every backoff delay is strictly less than retry_max_delay + 1 seconds.  *)
(* (In 1/1000 s: the jitter is below Millis.)                              *)
(***************************************************************************)
C15_JitterHalfOpen ==
    api.phase # "idle" =>
        /\ 0 <= api.randomness /\ api.randomness < Millis
        /\ \A i \in SleepsOf(api) :
              api.events[i].delay < (module.api_retry_max_delay + 1) * Millis

(***************************************************************************)
(* C16  Update ordering: without dry-run, when the resource found differs  *)
(* from the desired state on an update key, the invocation makes exactly   *)
(* one write call, with the update method, to resource_path/<id of the     *)
(* resource> and with the update body; the call after it is a GET of the   *)
(* same path and the last call of the invocation; the resource reported is *)
(* what that GET returned (the resource as the remote holds it after the   *)
(* write), not the body of the write's response (the resource as it was).  *)
(***************************************************************************)
\* The resource the store holds under the id of r.
StoredLike(store, r) ==
    LET at == {i \in 1..Len(store) : store[i][desc.resource_key_id] = r[desc.resource_key_id]}
    IN  IF at = {} THEN EmptyDict ELSE store[CHOOSE i \in at : TRUE]

C16_UpdateOrdering ==
    LET found == FoundIn(remote0)
        path == <<desc.resource_path, found[desc.resource_key_id].items[1]>>
        body == [k \in Range(desc.resource_update_param_keys) |-> module.params[k]]
        n == Len(calls)
    IN  (module.state = "present" /\ ~module.check_mode
            /\ Truthy(found) /\ ~NoFieldDiffers(found)) =>
            /\ \A i \in CallsWith(WriteMethods) :
                  /\ calls[i] = [method |-> desc.resource_update_method,
                                 path |-> path, data |-> body]
                  /\ \A j \in CallsWith(WriteMethods) : j = i
                  /\ i < n => (n = i + 1 /\ calls[n] = [method |-> "GET", path |-> path,
                                                        data |-> EmptyDict])
            /\ Emitted =>
                  /\ CallsWith(WriteMethods) = {n - 1}
                  /\ calls[n] = [method |-> "GET", path |-> path, data |-> EmptyDict]
                  /\ result.payload = StoredLike(remote, found)
                  /\ result.payload # found

\* A PUT changed the ip of the resource; the result reports the resource with the new ip.
C16_Witness ==
    /\ Emitted /\ module.state = "present" /\ ~module.check_mode
    /\ Len(calls) = 4
    /\ calls[3].method = "PUT"
    /\ calls[4].method = "GET"
    /\ result.before # EmptyDict
    /\ result.before["ip"] = Str("i2")
    /\ result.payload["ip"] = Str("i1")

(***************************************************************************)
(* C17  Post-create detail refetch: in present(), when the resource is not *)
(* found, a create call that returns a resource is, when the descriptor    *)
(* asks for details, followed at once by one GET of resource_path/<id of   *)
(* the created resource>, the last call of the invocation, and the         *)
(* resource reported is what that GET returned; when the descriptor does   *)
(* not ask for details, or the create call returned nothing, no call       *)
(* follows it and its outcome is reported; in dry-run no call follows the  *)
(* lookup.                                                                 *)
(***************************************************************************)
\* What the call that has returned hands to the reconciler as a resource.
OutcomeOf(a) == IF a.ret = "json" THEN a.item ELSE EmptyDict

C17_PostCreateRefetch ==
    /\ []((module.state = "present" /\ ~Truthy(FoundIn(remote0))) =>
            /\ module.check_mode =>
                  (Len(calls) <= 1 /\ (Emitted => result.payload = EmptyDict))
            /\ \A i \in CallsWith({"POST"}) :
                  /\ i = 2
                  /\ Len(calls) <= (IF desc.resource_get_details THEN 3 ELSE 2)
            /\ pc = "refetch" => Len(calls) = 3)
    /\ [][(pc = "create" /\ pc' \notin {"create", "failed", "crashed"}) =>
            IF Truthy(OutcomeOf(api)) /\ desc.resource_get_details
            THEN /\ pc' = "refetch"
                 /\ calls' = Append(calls,
                        [method |-> "GET",
                         path |-> <<desc.resource_path,
                                    OutcomeOf(api)[desc.resource_key_id].items[1]>>,
                         data |-> EmptyDict])
            ELSE /\ pc' = "done"
                 /\ calls' = calls
                 /\ result'.payload = OutcomeOf(api)]_vars
    /\ [][(pc = "refetch" /\ pc' \notin {"refetch", "failed", "crashed"}) =>
            /\ pc' = "done"
            /\ calls' = calls
            /\ result'.payload = OutcomeOf(api)
            /\ OutcomeOf(api) = StoredLike(remote, resource)]_vars

\* The resource was created under a new id and fetched again under that id.
C17_Witness ==
    /\ Emitted /\ module.state = "present" /\ ~module.check_mode
    /\ desc.resource_key_id = "id"
    /\ Len(calls) = 3
    /\ calls[2].method = "POST"
    /\ calls[3] = [method |-> "GET", path |-> <<"/domains", "n1">>, data |-> EmptyDict]
    /\ result.payload # EmptyDict
    /\ result.payload["id"] = Str("n1")

(***************************************************************************)
(* C18  Changed flag matches writes: no invocation makes more than one     *)
(* write call (POST, PATCH/PUT or DELETE), every write call comes after a  *)
(* GET call of the same invocation, and without dry-run an emitted result  *)
(* has changed = true exactly when one write call was made and             *)
(* changed = false exactly when none was.                                  *)
(***************************************************************************)
C18_ChangedMatchesWrites ==
    LET writes == CallsWith(WriteMethods)
    IN  /\ Cardinality(writes) <= 1
        /\ \A i \in writes : \E j \in 1..(i - 1) : calls[j].method = "GET"
        /\ (Emitted /\ ~module.check_mode) =>
              /\ result.changed <=> Cardinality(writes) = 1
              /\ ~result.changed <=> writes = {}

\* Two resources of the desired name: each run of absent() deleted one, with one DELETE call.
C18_Witness ==
    /\ Emitted /\ ~module.check_mode
    /\ module.state = "absent"
    /\ run = 2
    /\ history[1].changed
    /\ result.changed
    /\ Cardinality(CallsWith(WriteMethods)) = 1
    /\ CallsWith({"GET"}) # {}
    /\ Len(remote) = Len(remote0) - 1

(***************************************************************************)
(* C19  For every api_retries >= 0, 0 included, a call that has ended has  *)
(* issued at least one request and has classified the response to its last *)
(* request into one of the three outcomes; the classification is never     *)
(* reached without a response.                                             *)
(***************************************************************************)
C19_AlwaysARequest ==
    api.phase = "returned" =>
        /\ RequestsOf(api) # {}
        /\ api.status # Unbound
        /\ api.ret \in {"json", "none", "fail"}

(***************************************************************************)
(* C20  Every backoff sleep of a call is followed by another request of    *)
(* the same call: a call that has ended did not sleep after its last       *)
(* request, and when every one of its api_retries attempts was answered    *)
(* 429 it has slept api_retries - 1 times.                                 *)
(***************************************************************************)
C20_NoTrailingSleep ==
    api.phase = "returned" =>
        /\ \A i \in SleepsOf(api) : \E j \in RequestsOf(api) : j > i
        /\ (module.api_retries >= 1 /\ api.status = 429) =>
               Cardinality(SleepsOf(api)) = module.api_retries - 1

====
